---- MODULE Spec2Model ----
(***************************************************************************)
(* Token-exchange interceptor of the backend                               *)
(* (packages/backend/src/tokeninterceptor): start-up (makeEnv,             *)
(* createInterceptorRouter, createRouter) and the request handler          *)
(* TokenExchangeHandler.handleTokenExchange with its two chained upstream  *)
(* calls (token endpoint, user-info endpoint).                             *)
(*                                                                         *)
(* One request slot per element of Requests.  The synchronous part of the  *)
(* handler is one action.  An upstream answer is one action together with  *)
(* the first callback it triggers when that callback cannot leave an       *)
(* exception unhandled; every other promise callback (.then / .catch) is   *)
(* an action of its own, queued by the step that settled its promise.      *)
(* The process ends on an unhandled rejection (node 15 and later) only     *)
(* after the queued callbacks have run.                                    *)
(*                                                                         *)
(* The express response object is modelled by a record and the operators   *)
(* Status, AppendAllow, Send, SendNumber, SendStatus, Json and End (express 4   *)
(* on node's http.ServerResponse): once the headers are sent every further *)
(* header/body write throws ERR_HTTP_HEADERS_SENT, while assigning         *)
(* statusCode and calling end() on a finished response do not throw.       *)
(***************************************************************************)
EXTENDS Integers, Sequences, FiniteSets, TLC

\* Number of request slots of the model (a bound, not a program constant).
NumRequests == 2

Requests == 1..NumRequests

\* A JavaScript undefined (an absent body field, an absent config entry).
Undefined == "#undefined"

\* JavaScript falsiness of a string-or-undefined value: !v
Falsy(v) == v = Undefined \/ v = ""

\* String(v) as URLSearchParams.append applies it to a value.
ToStr(v) == IF v = Undefined THEN "undefined" ELSE v

--------------------------------------------------------------------------
\* Input domains

Methods == {"GET", "POST"}

ClientIds      == {Undefined, "", "cid"}
ClientSecrets  == {Undefined, "sec"}
GrantTypes     == {Undefined, "authorization_code", "refresh_token", "password"}
Codes          == {Undefined, "code1"}
RedirectUris   == {Undefined, "uri1"}
RefreshTokens  == {Undefined, "rt1"}

\* req.body after bodyParser: the six fields the handler reads.
Bodies ==
    [client_id : ClientIds, client_secret : ClientSecrets,
     grant_type : GrantTypes, code : Codes, redirect_uri : RedirectUris,
     refresh_token : RefreshTokens]

\* What the upstream token endpoint may return on success.
AccessTokens     == {"A1", "A2"}
UpRefreshTokens  == {"R1"}
\* What the upstream user-info endpoint may return on success.
Emails           == {"u@x.com", "v@x.com"}

\* The requests of the runs with several requests in flight: a valid
\* authorization_code POST, a valid refresh_token POST, a POST without client_id
\* and a GET.
FewInputs ==
    { <<"POST", [client_id |-> "cid", client_secret |-> "sec",
                 grant_type |-> "authorization_code", code |-> "code1",
                 redirect_uri |-> "uri1", refresh_token |-> Undefined]>>,
      <<"POST", [client_id |-> "cid", client_secret |-> "sec",
                 grant_type |-> "refresh_token", code |-> Undefined,
                 redirect_uri |-> Undefined, refresh_token |-> "rt1"]>>,
      <<"POST", [client_id |-> Undefined, client_secret |-> "sec",
                 grant_type |-> "refresh_token", code |-> Undefined,
                 redirect_uri |-> Undefined, refresh_token |-> "rt1"]>>,
      <<"GET",  [client_id |-> "cid", client_secret |-> "sec",
                 grant_type |-> "refresh_token", code |-> Undefined,
                 redirect_uri |-> Undefined, refresh_token |-> "rt1"]>> }

NoRequest == [method |-> "none"]
NoAnswer  == [state |-> "none"]

--------------------------------------------------------------------------
\* Configuration and environment (tokeninterceptor/index.ts)

ConfigKeys ==
    {"backend.tokenInterceptor.usersApiEndpoint",
     "backend.tokenInterceptor.tokenEndpoint",
     "backend.tokenInterceptor.jwtSigningKey",
     "backend.devToken"}

ConfigValue(k) ==
    CASE k = "backend.tokenInterceptor.usersApiEndpoint" -> "https://up/userinfo"
      [] k = "backend.tokenInterceptor.tokenEndpoint"    -> "https://up/token"
      [] k = "backend.tokenInterceptor.jwtSigningKey"    -> "signing-key"
      [] OTHER                                           -> "dev-token"

FullConfig == [k \in ConfigKeys |-> ConfigValue(k)]

\* Every configuration: each key present or absent.
Configs == [ConfigKeys -> {Undefined, "set"}]

Materialise(c) == [k \in ConfigKeys |-> IF c[k] = Undefined THEN Undefined ELSE ConfigValue(k)]

\* config.getString(key) throws when the key is absent.
GetStringThrows(cfg, k) == cfg[k] = Undefined

\* The object makeEnv returns from its catch block: {} cast to
\* InterceptorEnvironment, every member undefined.
EmptyEnv ==
    [logger |-> Undefined, devToken |-> Undefined, usersApiEndpoint |-> Undefined,
     tokenEndpoint |-> Undefined, jwtSigningKey |-> Undefined]

\* makeEnv: four getString calls inside try; the catch logs and returns {}.
makeEnv(cfg) ==
    IF \E k \in ConfigKeys : GetStringThrows(cfg, k)
    THEN EmptyEnv
    ELSE [logger |-> "logger",
          devToken |-> cfg["backend.devToken"],
          usersApiEndpoint |-> cfg["backend.tokenInterceptor.usersApiEndpoint"],
          tokenEndpoint |-> cfg["backend.tokenInterceptor.tokenEndpoint"],
          jwtSigningKey |-> cfg["backend.tokenInterceptor.jwtSigningKey"]]

EnvComplete(env) ==
    /\ env.logger # Undefined
    /\ env.devToken # Undefined
    /\ env.usersApiEndpoint # Undefined
    /\ env.tokenEndpoint # Undefined
    /\ env.jwtSigningKey # Undefined

--------------------------------------------------------------------------
\* The express response object

NoDelivery == [status |-> 0, allow |-> Undefined, body |-> [type |-> "none"]]

\* A fresh response: statusCode 200, nothing sent.
NewResponse ==
    [statusCode |-> 200, allow |-> Undefined, contentType |-> FALSE,
     headersSent |-> FALSE, delivered |-> NoDelivery, writes |-> 0, threw |-> FALSE]

EmptyBody     == [type |-> "empty"]
TextBody(t)   == [type |-> "text", text |-> t]
JsonBody(obj) == [type |-> "json", json |-> obj]

\* The errors a catch handler receives: the AxiosError of a rejected axios call,
\* a plain Error (the TypeError of reading a member of a null answer, the error
\* of jwt.sign), or node's ERR_HTTP_HEADERS_SENT error of a write that threw.
AxiosError == "AxiosError"
PlainError == "Error"
HeadersSentError == "ERR_HTTP_HEADERS_SENT"

\* A JSON object without members.
EmptyObject == [k \in {} |-> Undefined]

\* JSON.stringify(err): AxiosError.toJSON yields message and name (among other
\* members); node's ERR_HTTP_HEADERS_SENT error has the one enumerable member
\* code; a plain Error has no enumerable members and yields {}.
ErrorObject(err) ==
    CASE err = AxiosError       -> [message |-> "Request failed", name |-> "Error"]
      [] err = HeadersSentError -> [code |-> "ERR_HTTP_HEADERS_SENT"]
      [] OTHER                  -> EmptyObject

\* res.status(code): assigns statusCode; never throws.
Status(r, code) ==
    IF r.threw THEN r ELSE [r EXCEPT !.statusCode = code]

\* res.append('Allow', value): setHeader throws once headers are sent.
AppendAllow(r, value) ==
    IF r.threw THEN r
    ELSE IF r.headersSent THEN [r EXCEPT !.threw = TRUE]
    ELSE [r EXCEPT !.allow = value]

\* Writing head and body (with a Content-Type): first write is delivered, a
\* later one throws in setHeader.
WriteOut(r, code, body) ==
    IF r.threw THEN r
    ELSE IF r.headersSent
         THEN [r EXCEPT !.threw = TRUE, !.writes = @ + 1]
         ELSE [r EXCEPT !.headersSent = TRUE, !.writes = @ + 1, !.contentType = TRUE,
                        !.delivered = [status |-> code, allow |-> r.allow, body |-> body]]

\* res.send(body) with a string or object body.
Send(r, body) == WriteOut(r, r.statusCode, body)

\* res.json(obj)
Json(r, obj) == WriteOut(r, r.statusCode, JsonBody(obj))

\* res.sendStatus(code): statusCode = code, body is the status text.
SendStatus(r, code) ==
    WriteOut(Status(r, code), code, TextBody("Internal Server Error"))

\* res.send(500) (express 4, deprecated form): the number is taken as the status.
\* It first sets the Content-Type when there is none, and only then assigns
\* statusCode: on a response sent without Content-Type it throws with statusCode
\* unchanged.
SendNumber(r, code) ==
    IF r.threw THEN r
    ELSE IF r.headersSent /\ ~r.contentType
         THEN [r EXCEPT !.threw = TRUE, !.writes = @ + 1]
         ELSE WriteOut(Status(r, code), code, TextBody("Internal Server Error"))

\* res.end(): finishes an unsent response with an empty body; no-op on a finished one.
End(r) ==
    IF r.threw THEN r
    ELSE IF r.headersSent THEN r
    ELSE [r EXCEPT !.headersSent = TRUE, !.writes = @ + 1,
                   !.delivered = [status |-> r.statusCode, allow |-> r.allow, body |-> EmptyBody]]

\* The exception of a statement has been caught or has left the callback.
Settle(r) == [r EXCEPT !.threw = FALSE]

--------------------------------------------------------------------------
\* jsonwebtoken: an HS256 token is its payload plus a MAC over payload and key.
\* (The iat claim jwt.sign adds is left out of the payload.)

Mac(payload, key) == <<"HS256", payload, key>>

\* jwt.sign(payload, key) throws when the key has no value.
JwtSignThrows(key) == key = Undefined

JwtSign(payload, key) == [payload |-> payload, signature |-> Mac(payload, key)]

\* jwt.verify(token, key)
JwtVerify(token, key) == token.signature = Mac(token.payload, key)

--------------------------------------------------------------------------
\* TokenExchangeHandler: pure parts

\* generatePostParams: one appended pair per own property, in insertion order,
\* each value converted to a string by URLSearchParams.append.
generatePostParams(params) ==
    [n \in 1..Len(params) |-> <<params[n][1], ToStr(params[n][2])>>]

\* The object literal of the authorization_code branch.
AuthCodeParams(body) ==
    generatePostParams(<< <<"code", body.code>>,
                          <<"client_id", body.client_id>>,
                          <<"client_secret", body.client_secret>>,
                          <<"grant_type", body.grant_type>>,
                          <<"redirect_uri", body.redirect_uri>> >>)

\* Mutant of RefreshParams: the else branch reuses the authorization_code object
\* literal and adds refresh_token to it.
RefreshParamsWithCode(body) ==
    generatePostParams(<< <<"refresh_token", body.refresh_token>>,
                          <<"code", body.code>>,
                          <<"client_id", body.client_id>>,
                          <<"client_secret", body.client_secret>>,
                          <<"grant_type", body.grant_type>>,
                          <<"redirect_uri", body.redirect_uri>> >>)

\* The object literal of the else branch.
RefreshParams(body) ==
    generatePostParams(<< <<"refresh_token", body.refresh_token>>,
                          <<"client_id", body.client_id>>,
                          <<"client_secret", body.client_secret>>,
                          <<"grant_type", body.grant_type>> >>)

\* if (grantType === 'authorization_code')
IsAuthCode(body) == body.grant_type = "authorization_code"

\* Mutant of TokenParams: the dispatch tests for "refresh_token" and treats every
\* other grant type as an authorization code.
TokenParamsOnRefresh(body) ==
    IF body.grant_type = "refresh_token" THEN RefreshParams(body) ELSE AuthCodeParams(body)

TokenParams(body) == IF IsAuthCode(body) THEN AuthCodeParams(body) ELSE RefreshParams(body)

\* Mutant of MethodCheck: the 405 is prepared but never ended.
MethodCheckNoEnd(r, method) ==
    IF method # "POST" THEN AppendAllow(Status(r, 405), "POST") ELSE r

\* if (req.method !== 'POST') res.status(405).append('Allow', 'POST').end();
MethodCheck(r, method) ==
    IF method # "POST" THEN End(AppendAllow(Status(r, 405), "POST")) ELSE r

\* !clientId || !clientSecret || !grantType
InvalidParams(body) ==
    Falsy(body.client_id) \/ Falsy(body.client_secret) \/ Falsy(body.grant_type)

\* Mutant of ParamCheck: invalid parameters are logged and nothing is written.
ParamCheckLogOnly(r, body) == r

\* res.status(400).send('Invalid parameters for token exchange').end();
ParamCheck(r, body) ==
    IF InvalidParams(body)
    THEN End(Send(Status(r, 400), TextBody("Invalid parameters for token exchange")))
    ELSE r

\* Mutant of UserInfoRequest: the refresh token is used as bearer credential.
UserInfoRequestWrongBearer(url, accessToken, refreshToken) ==
    [url |-> url, bearer |-> refreshToken]

\* generateIdToken's axios.get: Authorization: Bearer <accessToken>.
UserInfoRequest(url, accessToken, refreshToken) ==
    [url |-> url, bearer |-> accessToken]

\* Mutant of generateIdToken: access and refresh token swapped in the result.
generateIdTokenSwapped(accessToken, refreshToken, email, key) ==
    [accessToken |-> refreshToken, refreshToken |-> accessToken,
     idToken |-> JwtSign([email |-> email], key)]

\* generateIdToken's .then: the TokenResponse built from the user-info answer.
generateIdToken(accessToken, refreshToken, email, key) ==
    [accessToken |-> accessToken, refreshToken |-> refreshToken,
     idToken |-> JwtSign([email |-> email], key)]

\* authorization_code branch, res.json of the TokenResponse.
AuthSuccess(r, tokenResponse) ==
    Json(r, [access_token |-> tokenResponse.accessToken,
             refresh_token |-> tokenResponse.refreshToken,
             id_token |-> tokenResponse.idToken])

\* Mutant of RefreshSuccess: refresh_token taken from the TokenResponse, which in
\* the else branch carries the refresh token of the request.
RefreshSuccessEcho(r, tokenBody, tokenResponse) ==
    Json(r, [access_token |-> tokenBody.access_token,
             refresh_token |-> tokenResponse.refreshToken,
             id_token |-> tokenResponse.idToken])

\* else branch, res.json: access_token and refresh_token from tokenBody.
RefreshSuccess(r, tokenBody, tokenResponse) ==
    Json(r, [access_token |-> tokenBody.access_token,
             refresh_token |-> tokenBody.refresh_token,
             id_token |-> tokenResponse.idToken])

\* Mutant of AuthIdTokenCatch: the error is sent without a status.
AuthIdTokenCatchNoStatus(r, err) ==
    Send(r, JsonBody(ErrorObject(err)))

\* authorization_code branch: res.send(500).send(err)
AuthIdTokenCatch(r, err) ==
    Send(SendNumber(r, 500), JsonBody(ErrorObject(err)))

\* Mutant of AuthTokenCatch: the error is sent without a status.
AuthTokenCatchNoStatus(r, err) ==
    Send(r, JsonBody(ErrorObject(err)))

\* authorization_code branch: res.sendStatus(500).send(err)
AuthTokenCatch(r, err) ==
    Send(SendStatus(r, 500), JsonBody(ErrorObject(err)))

\* Mutant of RefreshIdTokenCatch: the error is sent without a status.
RefreshIdTokenCatchNoStatus(r, err) ==
    End(Send(r, JsonBody(ErrorObject(err))))

\* else branch: res.status(500).send(err).end()
RefreshIdTokenCatch(r, err) ==
    End(Send(Status(r, 500), JsonBody(ErrorObject(err))))

\* else branch: res.status(500).json(err).end()
RefreshTokenCatch(r, err) ==
    End(Json(Status(r, 500), ErrorObject(err)))

TokenCatch(r, body, err) ==
    IF IsAuthCode(body) THEN AuthTokenCatch(r, err) ELSE RefreshTokenCatch(r, err)

IdTokenCatch(r, body, err) ==
    IF IsAuthCode(body) THEN AuthIdTokenCatch(r, err) ELSE RefreshIdTokenCatch(r, err)

\* logger.error calls of the token-endpoint catch: one, respectively two.
TokenCatchLogs(body) == IF IsAuthCode(body) THEN 1 ELSE 2

--------------------------------------------------------------------------
\* State

VARIABLES
    phase,          \* "boot" before createInterceptorRouter returned, then "serving"
    config,         \* the loaded configuration: key -> value or Undefined
    environment,    \* TokenExchangeHandler.environment
    rejections,     \* what node does with an unhandled rejection: "warn" or "throw"
    alive,          \* the process is running
    pc,             \* per request: position of the handler
    req,            \* per request: [method, body]
    res,            \* per request: the express response object
    tokenCalls,     \* per request: axios.post calls to the token endpoint
    userInfoCalls,  \* per request: axios.get calls to the user-info endpoint
    tokenBody,      \* per request: the token endpoint's answer
    userInfo,       \* per request: the user-info endpoint's answer
    settled,        \* per request: what generateIdToken's promise chain carries
    logged,         \* per request: number of logger.error calls
    unhandled       \* per request: exceptions that left a promise callback uncaught

vars == <<phase, config, environment, rejections, alive, pc, req, res, tokenCalls,
          userInfoCalls, tokenBody, userInfo, settled, logged, unhandled>>

perRequest == <<pc, req, res, tokenCalls, userInfoCalls, tokenBody, userInfo,
                settled, logged, unhandled>>

\* The code installs no 'unhandledRejection' listener and fixes no node version:
\* node 12 and 14 print a warning, node 15 and later end the process.
RejectionModes == {"warn", "throw"}

\* An unhandled rejection is waiting to be raised: node raises it once the
\* callbacks already queued have run.
RejectionPending ==
    alive /\ rejections = "throw" /\ \E i \in Requests : unhandled[i] > 0

\* A promise of some request has settled and its callback has not run yet.
CallbacksQueued ==
    \E i \in Requests : pc[i] \in {"tokenCatch", "idTokenReady", "idTokenCatch"}

\* A new event (a request, an upstream answer) is taken from the event loop only
\* while the process runs and has no unhandled rejection to raise.
TakesEvents == alive /\ ~RejectionPending

\* Before start-up, with the request slots in `active` awaiting a request.
InitWith(cfg, active, idle) ==
    /\ phase = "boot"
    /\ config = cfg
    /\ environment = EmptyEnv
    /\ rejections \in RejectionModes
    /\ alive = TRUE
    /\ pc = [i \in Requests |-> IF i \in active THEN idle ELSE "unused"]
    /\ req = [i \in Requests |-> NoRequest]
    /\ res = [i \in Requests |-> NewResponse]
    /\ tokenCalls = [i \in Requests |-> <<>>]
    /\ userInfoCalls = [i \in Requests |-> <<>>]
    /\ tokenBody = [i \in Requests |-> NoAnswer]
    /\ userInfo = [i \in Requests |-> NoAnswer]
    /\ settled = [i \in Requests |-> NoAnswer]
    /\ logged = [i \in Requests |-> 0]
    /\ unhandled = [i \in Requests |-> 0]

\* A complete configuration, one request.
Init == InitWith(FullConfig, {1}, "idle")

\* Any configuration, one request.
InitAnyConfig == \E c \in Configs : InitWith(Materialise(c), {1}, "idle")

\* A complete configuration, every slot awaiting one of FewInputs.
InitConcurrent == InitWith(FullConfig, Requests, "idleFew")

--------------------------------------------------------------------------
\* Actions

\* createInterceptorRouter: makeEnv, then createRouter constructs the handler
\* around whatever makeEnv returned.
createInterceptorRouter ==
    /\ phase = "boot"
    /\ environment' = makeEnv(config)
    /\ phase' = "serving"
    /\ UNCHANGED <<config, rejections, alive, perRequest>>

\* The synchronous part of handleTokenExchange, up to the axios.post call.
handleTokenExchange(i) ==
    /\ phase = "serving" /\ TakesEvents
    /\ pc[i] \in {"idle", "idleFew"}
    /\ \E method \in Methods, body \in Bodies :
         /\ pc[i] = "idleFew" => <<method, body>> \in FewInputs
         /\ req' = [req EXCEPT ![i] = [method |-> method, body |-> body]]
         /\ IF environment.logger = Undefined
            THEN \* this.environment.logger.info throws a TypeError
                 /\ pc' = [pc EXCEPT ![i] = "rejected"]
                 /\ UNCHANGED <<res, tokenCalls, logged>>
            ELSE LET r == ParamCheck(MethodCheck(NewResponse, method), body) IN
                 /\ res' = [res EXCEPT ![i] = Settle(r)]
                 /\ logged' = [logged EXCEPT ![i] = IF InvalidParams(body) THEN 1 ELSE 0]
                 /\ IF r.threw
                    THEN \* the exception rejects the async function; the router
                         \* hands it to next(err)
                         /\ pc' = [pc EXCEPT ![i] = "rejected"]
                         /\ UNCHANGED tokenCalls
                    ELSE /\ pc' = [pc EXCEPT ![i] = "tokenPending"]
                         /\ tokenCalls' = [tokenCalls EXCEPT ![i] =
                               Append(@, [url |-> environment.tokenEndpoint,
                                          params |-> TokenParams(body)])]
    /\ UNCHANGED <<phase, config, environment, rejections, alive, userInfoCalls,
                   tokenBody, userInfo, settled, unhandled>>

\* axios.post resolved: the .then callback reads tokenBody and calls generateIdToken,
\* which issues the user-info GET with the access token as bearer.
TokenEndpointSucceeds(i) ==
    /\ TakesEvents
    /\ pc[i] = "tokenPending"
    /\ \E at \in AccessTokens, rt \in UpRefreshTokens :
         /\ tokenBody' = [tokenBody EXCEPT ![i] =
               [state |-> "ok", access_token |-> at, refresh_token |-> rt]]
         /\ userInfoCalls' = [userInfoCalls EXCEPT ![i] =
               Append(@, UserInfoRequest(environment.usersApiEndpoint, at,
                                         IF IsAuthCode(req[i].body) THEN rt
                                         ELSE req[i].body.refresh_token))]
    /\ pc' = [pc EXCEPT ![i] = "userInfoPending"]
    /\ UNCHANGED <<phase, config, environment, rejections, alive, req, res, tokenCalls,
                   userInfo, settled, logged, unhandled>>

\* An exception left a .catch callback: nothing handles the rejected promise.
AfterCallback(i, threw) ==
    unhandled' = [unhandled EXCEPT ![i] = IF threw THEN @ + 1 ELSE @]

\* Node has run every queued callback and raises the unhandled rejection as an
\* uncaught exception: the process ends with exit code 1.
ProcessExits ==
    /\ RejectionPending
    /\ ~CallbacksQueued
    /\ alive' = FALSE
    /\ UNCHANGED <<phase, config, environment, rejections, perRequest>>

\* The outer .catch of request i, run with err.
RunTokenCatch(i, err) ==
    LET r == TokenCatch(res[i], req[i].body, err) IN
    /\ res' = [res EXCEPT ![i] = Settle(r)]
    /\ logged' = [logged EXCEPT ![i] = @ + TokenCatchLogs(req[i].body)]
    /\ AfterCallback(i, r.threw)
    /\ pc' = [pc EXCEPT ![i] = "done"]

\* The promise the outer .catch hangs on is rejected with err: the outer .catch
\* is queued.
TokenRejected(i, err) ==
    /\ settled' = [settled EXCEPT ![i] = [state |-> "rejected", err |-> err]]
    /\ pc' = [pc EXCEPT ![i] = "tokenCatch"]

\* Mutant of TokenEndpointFails: a first failure re-issues the axios.post.
TokenEndpointFailsRetry(i) ==
    /\ TakesEvents
    /\ pc[i] = "tokenPending"
    /\ IF Len(tokenCalls[i]) < 2
       THEN /\ tokenCalls' = [tokenCalls EXCEPT ![i] = Append(@, @[1])]
            /\ UNCHANGED <<tokenBody, settled, pc>>
       ELSE /\ tokenBody' = [tokenBody EXCEPT ![i] = [state |-> "failed"]]
            /\ TokenRejected(i, AxiosError)
            /\ UNCHANGED tokenCalls
    /\ UNCHANGED <<phase, config, environment, rejections, alive, req, res,
                   userInfoCalls, userInfo, logged, unhandled>>

\* axios.post rejected (non-2xx or network error): the rejection passes the
\* .then and reaches the outer .catch.
TokenEndpointFails(i) ==
    /\ TakesEvents
    /\ pc[i] = "tokenPending"
    /\ tokenBody' = [tokenBody EXCEPT ![i] = [state |-> "failed"]]
    /\ TokenRejected(i, AxiosError)
    /\ UNCHANGED <<phase, config, environment, rejections, alive, req, res, tokenCalls,
                   userInfoCalls, userInfo, logged, unhandled>>

\* axios.post resolved with data null: reading tokenBody.access_token throws a
\* TypeError in the .then callback, which the outer .catch receives.
TokenEndpointAnswersNull(i) ==
    /\ TakesEvents
    /\ pc[i] = "tokenPending"
    /\ tokenBody' = [tokenBody EXCEPT ![i] = [state |-> "null"]]
    /\ TokenRejected(i, PlainError)
    /\ UNCHANGED <<phase, config, environment, rejections, alive, req, res, tokenCalls,
                   userInfoCalls, userInfo, logged, unhandled>>

\* The outer .catch runs: logger.error, then the 500.
TokenCatchRuns(i) ==
    /\ alive
    /\ pc[i] = "tokenCatch"
    /\ RunTokenCatch(i, settled[i].err)
    /\ UNCHANGED <<phase, config, environment, rejections, alive, req, tokenCalls,
                   userInfoCalls, tokenBody, userInfo, settled>>

\* const tokenBody = response.data: local to the .then callback of request i and
\* captured by the callbacks nested in it.
TokenBodySeen(i) == tokenBody[i]

\* The refresh token handed to generateIdToken: the upstream's in the
\* authorization_code branch, the request's in the else branch.
IdTokenRefreshArg(i) ==
    IF IsAuthCode(req[i].body) THEN TokenBodySeen(i).refresh_token
    ELSE req[i].body.refresh_token

\* generateIdToken's promise is rejected with err: the inner .catch is queued.
IdTokenRejected(i, err) ==
    /\ settled' = [settled EXCEPT ![i] = [state |-> "rejected", err |-> err]]
    /\ pc' = [pc EXCEPT ![i] = "idTokenCatch"]

\* axios.get resolved: generateIdToken's .then signs the id token and resolves
\* with the TokenResponse; an exception of jwt.sign rejects the promise.
UserInfoSucceeds(i) ==
    /\ TakesEvents
    /\ pc[i] = "userInfoPending"
    /\ \E email \in Emails :
         /\ userInfo' = [userInfo EXCEPT ![i] = [state |-> "ok", email |-> email]]
         /\ IF JwtSignThrows(environment.jwtSigningKey)
            THEN IdTokenRejected(i, PlainError)
            ELSE /\ settled' = [settled EXCEPT ![i] =
                       [state |-> "resolved",
                        tokenResponse |->
                            generateIdToken(TokenBodySeen(i).access_token,
                                            IdTokenRefreshArg(i), email,
                                            environment.jwtSigningKey)]]
                 /\ pc' = [pc EXCEPT ![i] = "idTokenReady"]
    /\ UNCHANGED <<phase, config, environment, rejections, alive, req, res, tokenCalls,
                   userInfoCalls, tokenBody, logged, unhandled>>

\* axios.get resolved with data null: response.data.email throws a TypeError in
\* generateIdToken's .then, which rejects the promise.
UserInfoAnswersNull(i) ==
    /\ TakesEvents
    /\ pc[i] = "userInfoPending"
    /\ userInfo' = [userInfo EXCEPT ![i] = [state |-> "null"]]
    /\ IdTokenRejected(i, PlainError)
    /\ UNCHANGED <<phase, config, environment, rejections, alive, req, res, tokenCalls,
                   userInfoCalls, tokenBody, logged, unhandled>>

\* axios.get rejected: generateIdToken's promise is rejected with the AxiosError.
UserInfoFails(i) ==
    /\ TakesEvents
    /\ pc[i] = "userInfoPending"
    /\ userInfo' = [userInfo EXCEPT ![i] = [state |-> "failed"]]
    /\ IdTokenRejected(i, AxiosError)
    /\ UNCHANGED <<phase, config, environment, rejections, alive, req, res, tokenCalls,
                   userInfoCalls, tokenBody, logged, unhandled>>

\* The caller's .then of generateIdToken: res.json of the answer. When res.json
\* throws, the promise is rejected with that error and the inner .catch is queued.
AnswerSuccess(i) ==
    /\ alive
    /\ pc[i] = "idTokenReady"
    /\ LET r == IF IsAuthCode(req[i].body)
                THEN AuthSuccess(res[i], settled[i].tokenResponse)
                ELSE RefreshSuccess(res[i], TokenBodySeen(i), settled[i].tokenResponse)
       IN /\ res' = [res EXCEPT ![i] = Settle(r)]
          /\ IF r.threw
             THEN IdTokenRejected(i, HeadersSentError)
             ELSE /\ pc' = [pc EXCEPT ![i] = "done"]
                  /\ UNCHANGED settled
    /\ UNCHANGED <<phase, config, environment, rejections, alive, req, tokenCalls,
                   userInfoCalls, tokenBody, userInfo, logged, unhandled>>

\* The inner .catch: logger.error, then the 500.
IdTokenCatchRuns(i) ==
    /\ alive
    /\ pc[i] = "idTokenCatch"
    /\ LET c == IdTokenCatch(res[i], req[i].body, settled[i].err) IN
         /\ res' = [res EXCEPT ![i] = Settle(c)]
         /\ AfterCallback(i, c.threw)
    /\ logged' = [logged EXCEPT ![i] = @ + 1]
    /\ pc' = [pc EXCEPT ![i] = "done"]
    /\ UNCHANGED <<phase, config, environment, rejections, alive, req, tokenCalls,
                   userInfoCalls, tokenBody, userInfo, settled>>

Receive == \E i \in Requests : handleTokenExchange(i)
TokenOk == \E i \in Requests : TokenEndpointSucceeds(i)
TokenErr == \E i \in Requests : TokenEndpointFails(i)
TokenNull == \E i \in Requests : TokenEndpointAnswersNull(i)
OuterCatch == \E i \in Requests : TokenCatchRuns(i)
UserOk == \E i \in Requests : UserInfoSucceeds(i)
UserNull == \E i \in Requests : UserInfoAnswersNull(i)
UserErr == \E i \in Requests : UserInfoFails(i)
Answer == \E i \in Requests : AnswerSuccess(i)
InnerCatch == \E i \in Requests : IdTokenCatchRuns(i)

Next ==
    \/ createInterceptorRouter
    \/ Receive
    \/ TokenOk
    \/ TokenErr
    \/ TokenNull
    \/ OuterCatch
    \/ UserOk
    \/ UserNull
    \/ UserErr
    \/ Answer
    \/ InnerCatch
    \/ ProcessExits

\* The handler behind a complete configuration.
Spec == Init /\ [][Next]_vars

\* Start-up over every configuration.
StartupSpec == InitAnyConfig /\ [][Next]_vars

\* Every slot takes a request; their callbacks interleave in any order.
ConcurrentSpec == InitConcurrent /\ [][Next]_vars

\* Several requests in flight.  While the process runs, node's event loop runs
\* every queued callback and raises a pending unhandled rejection, and every
\* started upstream call is assumed to be answered eventually.
LiveSpec ==
    /\ InitConcurrent /\ [][Next]_vars
    /\ WF_vars(createInterceptorRouter)
    /\ WF_vars(ProcessExits)
    /\ \A i \in Requests :
          /\ WF_vars(handleTokenExchange(i))
          /\ WF_vars(TokenEndpointSucceeds(i) \/ TokenEndpointFails(i)
                         \/ TokenEndpointAnswersNull(i))
          /\ WF_vars(UserInfoSucceeds(i) \/ UserInfoFails(i) \/ UserInfoAnswersNull(i))
          /\ WF_vars(TokenCatchRuns(i))
          /\ WF_vars(AnswerSuccess(i))
          /\ WF_vars(IdTokenCatchRuns(i))

--------------------------------------------------------------------------
\* Vocabulary of the properties

\* handleTokenExchange has been invoked for request i.
Invoked(i) == pc[i] \notin {"unused", "idle", "idleFew"}

\* No callback of request i is outstanding.
Finished(i) == pc[i] \in {"done", "rejected"}

\* The response the caller of request i received.
Delivered(i) == res[i].delivered

Responded(i) == res[i].headersSent

IsPost(i) == req[i].method = "POST"

\* POST with client_id, client_secret and grant_type present.
ValidPost(i) == Invoked(i) /\ IsPost(i) /\ ~InvalidParams(req[i].body)

HasIdToken(body) == body.type = "json" /\ "id_token" \in DOMAIN body.json

NoUpstreamCalls(i) == tokenCalls[i] = <<>> /\ userInfoCalls[i] = <<>>

\* The keys, in order, and the value of a key of a form body.
FormKeys(params) == [n \in 1..Len(params) |-> params[n][1]]
FormHas(params, k) == \E n \in 1..Len(params) : params[n][1] = k
FormValue(params, k) == (CHOOSE n \in 1..Len(params) : params[n][1] = k)

--------------------------------------------------------------------------
\* C1: a request with client_id, client_secret or grant_type missing or empty is
\* answered 400 (when it is a POST; a non-POST is answered 405 first) and causes no
\* call to the token endpoint or the user-info endpoint.
C1_InvalidRequestNoUpstream ==
    \A i \in Requests :
        (Invoked(i) /\ InvalidParams(req[i].body)) =>
            /\ IsPost(i) => Delivered(i).status = 400
            /\ NoUpstreamCalls(i)

\* C2: at most one response write is attempted per request.
C2_SingleResponseWrite ==
    \A i \in Requests : res[i].writes <= 1

\* C3: every non-POST request is answered with status 405 and Allow: POST,
\* whatever its body holds.
C3_NonPostGets405 ==
    \A i \in Requests :
        (Invoked(i) /\ ~IsPost(i)) =>
            /\ Delivered(i).status = 405
            /\ Delivered(i).allow = "POST"

\* A non-POST request with all mandatory fields has run to its last callback and
\* the caller holds the 405.
C3_Witness ==
    \E i \in Requests :
        /\ pc[i] = "done" /\ ~IsPost(i) /\ ~InvalidParams(req[i].body)
        /\ userInfo[i].state = "ok"
        /\ Delivered(i).status = 405

\* C4: a non-POST request never causes a call to the token endpoint or the
\* user-info endpoint, even when it carries the mandatory fields.
C4_NonPostNoUpstream ==
    \A i \in Requests :
        (Invoked(i) /\ ~IsPost(i)) => NoUpstreamCalls(i)

\* C5: when the token endpoint call of a valid POST request fails, the
\* user-info endpoint is never called and, once the catch handler has run, the
\* answer is 500.
C5_TokenFailureGives500 ==
    \A i \in Requests :
        (ValidPost(i) /\ tokenBody[i].state = "failed") =>
            /\ pc[i] = "done" => Delivered(i).status = 500
            /\ userInfoCalls[i] = <<>>

\* The token call of a valid authorization_code POST has failed and the caller
\* holds the 500.
C5_Witness ==
    \E i \in Requests :
        /\ ValidPost(i) /\ tokenBody[i].state = "failed" /\ pc[i] = "done"
        /\ IsAuthCode(req[i].body)
        /\ Delivered(i).status = 500

\* C6: when the token call of a valid POST request succeeds and the user-info
\* call fails, the answer is 500 and its body holds no id_token.
C6_UserInfoFailureGives500 ==
    \A i \in Requests :
        ( /\ ValidPost(i) /\ pc[i] = "done"
          /\ tokenBody[i].state = "ok" /\ userInfo[i].state = "failed" ) =>
            /\ Delivered(i).status = 500
            /\ ~HasIdToken(Delivered(i).body)

C6_Witness ==
    \E i \in Requests :
        /\ ValidPost(i) /\ pc[i] = "done"
        /\ tokenBody[i].state = "ok" /\ userInfo[i].state = "failed"
        /\ ~IsAuthCode(req[i].body)
        /\ Delivered(i).status = 500 /\ Delivered(i).body.type = "json"

\* A valid authorization_code POST: mandatory fields, code and redirect_uri.
ValidAuthCodePost(i) ==
    /\ ValidPost(i) /\ IsAuthCode(req[i].body)
    /\ req[i].body.code # Undefined /\ req[i].body.redirect_uri # Undefined

\* C7: a valid authorization_code POST whose token call returned {A, R} and whose
\* user-info call returned {email: E} is answered 200 with access_token A,
\* refresh_token R and an id_token signed with the signing key over email = E.
C7_AuthCodeSuccess ==
    \A i \in Requests :
        ( /\ ValidAuthCodePost(i) /\ pc[i] = "done"
          /\ tokenBody[i].state = "ok" /\ userInfo[i].state = "ok" ) =>
            /\ Delivered(i).status = 200
            /\ Delivered(i).body.type = "json"
            /\ DOMAIN Delivered(i).body.json = {"access_token", "refresh_token", "id_token"}
            /\ Delivered(i).body.json.access_token = tokenBody[i].access_token
            /\ Delivered(i).body.json.refresh_token = tokenBody[i].refresh_token
            /\ Delivered(i).body.json.id_token.payload = [email |-> userInfo[i].email]
            /\ JwtVerify(Delivered(i).body.json.id_token, environment.jwtSigningKey)

C7_Witness ==
    \E i \in Requests :
        /\ ValidAuthCodePost(i) /\ tokenBody[i].state = "ok" /\ userInfo[i].state = "ok"
        /\ tokenBody[i].access_token = "A2" /\ userInfo[i].email = "v@x.com"
        /\ Delivered(i).status = 200

\* A POST with grant_type "refresh_token" that carries a refresh_token.
RefreshPost(i) ==
    /\ Invoked(i) /\ IsPost(i)
    /\ req[i].body.grant_type = "refresh_token"
    /\ req[i].body.refresh_token # Undefined

\* C8: the form body a refresh_token POST sends to the token endpoint holds exactly
\* refresh_token, client_id, client_secret and grant_type, each field the request
\* carries with the request's value, and neither code nor redirect_uri.
C8_RefreshFormBody ==
    \A i \in Requests :
        RefreshPost(i) =>
            \A n \in 1..Len(tokenCalls[i]) :
                LET params == tokenCalls[i][n].params IN
                /\ FormKeys(params) =
                       <<"refresh_token", "client_id", "client_secret", "grant_type">>
                /\ ~FormHas(params, "code") /\ ~FormHas(params, "redirect_uri")
                /\ \A k \in {"refresh_token", "client_id", "client_secret", "grant_type"} :
                       req[i].body[k] # Undefined =>
                           params[FormValue(params, k)][2] = req[i].body[k]

\* A refresh_token POST that also carries code and redirect_uri has called the
\* token endpoint.
C8_Witness ==
    \E i \in Requests :
        /\ RefreshPost(i) /\ ~InvalidParams(req[i].body)
        /\ req[i].body.code # Undefined /\ req[i].body.redirect_uri # Undefined
        /\ Len(tokenCalls[i]) = 1

\* C9: with a configuration entry missing the router is never created, so no
\* request is handled with an environment that lacks a value.
C9_MissingConfigIsFatal ==
    /\ phase = "serving" => \A k \in ConfigKeys : config[k] # Undefined
    /\ \A i \in Requests : Invoked(i) => EnvComplete(environment)

\* C10: every invocation of handleTokenExchange eventually reaches a state in
\* which a response with a status has been sent and ended.
C10_EveryRequestAnswered ==
    \A i \in Requests :
        Invoked(i) ~> (Responded(i) /\ Delivered(i).status # 0)


--------------------------------------------------------------------------
\* C11: in every 200 response, of either grant type, access_token and
\* refresh_token are the values the token endpoint returned for that request; a
\* refresh-token grant does not echo the refresh_token of the request.
C11_TokensAreUpstreams ==
    \A i \in Requests :
        Delivered(i).status = 200 =>
            /\ tokenBody[i].state = "ok"
            /\ Delivered(i).body.type = "json"
            /\ Delivered(i).body.json.access_token = tokenBody[i].access_token
            /\ Delivered(i).body.json.refresh_token = tokenBody[i].refresh_token

\* A refresh-token grant that sent refresh_token rt1 got the upstream's R1 back.
C11_Witness ==
    \E i \in Requests :
        /\ Delivered(i).status = 200
        /\ req[i].body.grant_type = "refresh_token"
        /\ req[i].body.refresh_token = "rt1"
        /\ Delivered(i).body.json.refresh_token = "R1"

\* C12: the user-info call of a request is started only after its token call has
\* completed successfully, and its bearer is the access_token of that token call.
C12_UserInfoAfterToken ==
    \A i \in Requests :
        \A n \in 1..Len(userInfoCalls[i]) :
            /\ tokenCalls[i] # <<>>
            /\ tokenBody[i].state = "ok"
            /\ userInfoCalls[i][n].bearer = tokenBody[i].access_token
            /\ pc[i] \in {"userInfoPending", "idTokenReady", "idTokenCatch", "done"}

C12_Witness ==
    \E i \in Requests :
        /\ pc[i] = "userInfoPending"
        /\ ~IsAuthCode(req[i].body) /\ req[i].body.refresh_token = "rt1"
        /\ Len(userInfoCalls[i]) = 1
        /\ userInfoCalls[i][1].bearer = "A2"

\* C13: an authorization_code POST that lacks code or redirect_uri causes no call
\* to the token endpoint.
C13_AuthCodeNeedsCodeAndRedirect ==
    \A i \in Requests :
        ( /\ Invoked(i) /\ IsPost(i)
          /\ req[i].body.grant_type = "authorization_code"
          /\ (req[i].body.code = Undefined \/ req[i].body.redirect_uri = Undefined) )
        => tokenCalls[i] = <<>>

AuthFormKeys == <<"code", "client_id", "client_secret", "grant_type", "redirect_uri">>
RefreshFormKeys == <<"refresh_token", "client_id", "client_secret", "grant_type">>

\* C14: a request that passes validation with a grant_type other than
\* "authorization_code" calls the token endpoint with the refresh-token form and
\* its own grant_type value; the authorization-code form is built exactly when
\* grant_type is "authorization_code".
C14_DispatchFallthrough ==
    \A i \in Requests :
        ValidPost(i) =>
            /\ Len(tokenCalls[i]) = 1
            /\ LET params == tokenCalls[i][1].params
                   authCode == req[i].body.grant_type = "authorization_code"
               IN /\ authCode <=> FormKeys(params) = AuthFormKeys
                  /\ ~authCode =>
                        /\ FormKeys(params) = RefreshFormKeys
                        /\ params[FormValue(params, "refresh_token")][2] =
                               ToStr(req[i].body.refresh_token)
                  /\ params[FormValue(params, "grant_type")][2] = req[i].body.grant_type

\* A grant_type that is neither of the two known ones went out as a refresh form.
C14_Witness ==
    \E i \in Requests :
        /\ ValidPost(i) /\ req[i].body.grant_type = "password"
        /\ Len(tokenCalls[i]) = 1
        /\ FormKeys(tokenCalls[i][1].params) = RefreshFormKeys

--------------------------------------------------------------------------
\* C15: a request causes at most one call to the token endpoint and at most one
\* call to the user-info endpoint, also when a call fails.
C15_NoRetry ==
    \A i \in Requests :
        /\ Len(tokenCalls[i]) <= 1
        /\ Len(userInfoCalls[i]) <= 1

\* A request whose token call failed is finished after that one call.
C15_Witness ==
    \E i \in Requests :
        /\ pc[i] = "done" /\ tokenBody[i].state = "failed"
        /\ Len(tokenCalls[i]) = 1 /\ userInfoCalls[i] = <<>>

\* C16: whenever the handler has logged an error for a request, the caller's
\* response has a status outside 200..299.
C16_LoggedErrorMeansFailureStatus ==
    \A i \in Requests :
        logged[i] > 0 =>
            /\ Responded(i)
            /\ Delivered(i).status \notin 200..299

\* The id-token failure of a valid authorization_code POST was logged and answered.
C16_Witness ==
    \E i \in Requests :
        /\ ValidPost(i) /\ IsAuthCode(req[i].body)
        /\ userInfo[i].state = "failed" /\ logged[i] = 1
        /\ Delivered(i).status = 500

\* The status request i is to get, from its own method, body and upstream answers.
OwnStatus(i) ==
    IF ~IsPost(i) THEN 405
    ELSE IF InvalidParams(req[i].body) THEN 400
    ELSE IF tokenBody[i].state \in {"failed", "null"}
            \/ userInfo[i].state \in {"failed", "null"} THEN 500
    ELSE 200

\* Request i has callbacks outstanding.
InFlight(i) ==
    pc[i] \in {"tokenPending", "tokenCatch", "userInfoPending", "idTokenReady",
              "idTokenCatch"}

\* C17: with requests in flight together and their upstream calls completing in
\* any order, the response of each request follows from its own method and body
\* and its own upstream answers: no request still waiting for its answer is cut
\* off by what happened to another request, and a finished request has the status
\* and, in a 200, the access_token, refresh_token and id_token email of its own.
C17_RequestIsolation ==
    \A i \in Requests :
        /\ (InFlight(i) /\ ~Responded(i)) => alive
        /\ Finished(i) =>
            /\ Delivered(i).status = OwnStatus(i)
            /\ Delivered(i).status = 200 =>
                /\ Delivered(i).body.json.access_token = tokenBody[i].access_token
                /\ Delivered(i).body.json.refresh_token = tokenBody[i].refresh_token
                /\ Delivered(i).body.json.id_token.payload = [email |-> userInfo[i].email]

\* C18: a caller holds a 200 response with an id_token only if the request was a
\* POST with the mandatory fields and both its token call and its user-info call
\* had succeeded when the response was written.
C18_SuccessOnlyAfterBothCalls ==
    \A i \in Requests :
        (Delivered(i).status = 200 /\ HasIdToken(Delivered(i).body)) =>
            /\ IsPost(i)
            /\ ~InvalidParams(req[i].body)
            /\ Len(tokenCalls[i]) = 1 /\ tokenBody[i].state = "ok"
            /\ Len(userInfoCalls[i]) = 1 /\ userInfo[i].state = "ok"
            /\ pc[i] = "done"

C18_Witness ==
    \E i \in Requests :
        /\ Delivered(i).status = 200 /\ HasIdToken(Delivered(i).body)
        /\ ~IsAuthCode(req[i].body)
        /\ tokenBody[i].state = "ok" /\ userInfo[i].state = "ok"

====
